---- MODULE Spec2Model ----
(* Model of src/main.c: safe use of vfork from a multi-threaded program.   *)
(* Three activities: main (Coordinator), run_thread (Spawner) and the      *)
(* vfork child, which runs the body of `if (child == 0)` in the Spawner's  *)
(* address space until it calls execve or _exit.                           *)
EXTENDS Integers, Sequences, FiniteSets, TLC

(* ---------------------------------------------------------------------- *)
(* Bounds                                                                  *)
(* ---------------------------------------------------------------------- *)
\* number of signal numbers the loop iterates over (glibc: 65); 0 is not a signal
NSIG == 3
\* exit codes the target program is let to use, besides the reserved 1, 2, 3
MaxTargetCode == 4

(* ---------------------------------------------------------------------- *)
(* Program constants                                                       *)
(* ---------------------------------------------------------------------- *)
\* the pid vfork returns in the parent: any value other than 0 and -1
ChildPid == 7

SigRange == 0 .. (NSIG - 1)
Sigs == 1 .. (NSIG - 1)
Dispositions == {"SIG_DFL", "SIG_IGN", "HANDLER"}
TargetCodes == (0 .. MaxTargetCode) \cup {255}
Errnos == {"EINVAL", "EOTHER"}

VARIABLES
  coPc,             \* position of main
  spPc,             \* position of run_thread in the Spawner thread
  chPc,             \* position of the child continuation
  procExit,         \* "none", or the way the process has exited
  coMask,           \* signal mask of the main thread
  spMask,           \* signal mask of the Spawner thread
  chMask,           \* signal mask of the child
  disp,             \* signal dispositions of the process
  chDisp,           \* signal dispositions of the child
  cred,             \* credentials of main, of the Spawner thread, of the child
  target,           \* the globals filename, new_argv, new_envp
  signal_mask,      \* run_thread locals, shared with the child by vfork
  old_signal_mask,
  empty_mask,
  newsa,
  oldsa,
  i,
  ret,
  errno,
  child,
  waited,
  status,           \* the global status
  chState,          \* "none", "running", "replaced", "zombie", "reaped"
  chTerm,           \* how the child process terminated
  out,              \* what was written to stdout and stderr, in order
  hist              \* history of the run, for the properties only

vars == << coPc, spPc, chPc, procExit, coMask, spMask, chMask, disp,
           cred, target, chDisp,
           signal_mask, old_signal_mask, empty_mask, newsa, oldsa, i, ret,
           errno, child, waited, status, chState, chTerm, out, hist >>

memVars == << signal_mask, old_signal_mask, empty_mask, newsa, oldsa, i, ret,
              errno, child, waited, status >>

\* const char *filename; char *const new_argv[2]; char *const new_envp[1]
TheTarget ==
  [filename |-> "/bin/ls", new_argv |-> << "/bin/ls" >>, new_envp |-> << >>]

NoTerm == [kind |-> "none", val |-> 0, core |-> 0]

(* ---------------------------------------------------------------------- *)
(* Wait status: the kernel's encoding and the sys/wait.h decoding macros   *)
(* ---------------------------------------------------------------------- *)
\* status word of a process that called _exit(code)
W_EXITCODE(code) == (code % 256) * 256
\* status word of a process killed by signal sig, core = 1 if it dumped core
W_KILLED(sig, core) == (sig % 128) + 128 * core

EncodeStatus(t) ==
  IF t.kind = "exit" THEN W_EXITCODE(t.val) ELSE W_KILLED(t.val, t.core)

WTERMSIG(s) == s % 128
\* mutant: the exit code taken from the low byte of the status word
WEXITSTATUS_LowByte(s) == s % 256
WEXITSTATUS(s) == (s \div 256) % 256
WIFEXITED(s) == WTERMSIG(s) = 0
\* ((signed char) ((s & 0x7f) + 1) >> 1) > 0
WIFSIGNALED(s) ==
  LET t == (WTERMSIG(s) + 1) % 256
      sc == IF t >= 128 THEN t - 256 ELSE t
  IN  (sc \div 2) > 0

\* mutant: a death by signal is printed as an exit with the signal's number
Report_SignalAsExit(s) ==
  IF WIFEXITED(s) THEN << <<"Exited", WEXITSTATUS(s)>> >>
  ELSE IF WIFSIGNALED(s) THEN << <<"Exited", WTERMSIG(s)>> >>
  ELSE << >>

\* the line run_thread prints for a status word, << >> if it prints nothing
Report(s) ==
  IF WIFEXITED(s) THEN << <<"Exited", WEXITSTATUS(s)>> >>
  ELSE IF WIFSIGNALED(s) THEN << <<"Signaled", WTERMSIG(s)>> >>
  ELSE << >>

(* ---------------------------------------------------------------------- *)
(* Initial state                                                           *)
(* ---------------------------------------------------------------------- *)
InitHist ==
  [ preMask |-> {}, restores |-> 0, waitCalls |-> 0, vforkFailed |-> FALSE,
    childRan |-> FALSE, execAttempts |-> 0, targetRan |-> FALSE,
    qfail |-> {}, seinval |-> {}, decoded |-> 0, prev |-> {},
    chSteps |-> 0, order |-> << >>, sets |-> << >> ]

Init ==
  /\ coPc = "create"
  /\ spPc = "none"
  /\ chPc = "none"
  /\ procExit = "none"
  /\ coMask \in SUBSET Sigs
  /\ spMask = {}
  /\ chMask = {}
  /\ disp \in [Sigs -> Dispositions]
  /\ chDisp = disp
  /\ cred = [co |-> "root", sp |-> "none", ch |-> "none"]
  /\ target = TheTarget
  \* the locals of run_thread are not initialised and are never read before
  \* they are assigned: they start with values the code never assigns first
  /\ signal_mask = {}
  /\ old_signal_mask = {}
  /\ empty_mask = Sigs
  /\ newsa = [sa_handler |-> "HANDLER", sa_mask |-> Sigs, sa_flags |-> 1]
  /\ oldsa = "SIG_DFL"
  /\ i = 0
  /\ ret = 0
  /\ errno = "none"
  /\ child = 0
  /\ waited = 0
  /\ status = 0
  /\ chState = "none"
  /\ chTerm = NoTerm
  /\ out = << >>
  /\ hist = InitHist

Alive == procExit = "none"

(* ---------------------------------------------------------------------- *)
(* Coordinator: main                                                       *)
(* ---------------------------------------------------------------------- *)
\* pthread_create succeeds: the new thread starts run_thread with main's mask
CoCreateOk ==
  /\ Alive /\ coPc = "create"
  /\ coPc' = "work"
  /\ spPc' = "sigfillset"
  /\ spMask' = coMask
  /\ cred' = [cred EXCEPT !.sp = cred.co]
  /\ UNCHANGED << chPc, procExit, coMask, chMask, disp, target, chDisp,
                  memVars, chState, chTerm, out, hist >>

\* pthread_create fails
CoCreateFail ==
  /\ Alive /\ coPc = "create"
  /\ coPc' = "create_failed"
  /\ UNCHANGED << spPc, chPc, procExit, coMask, spMask, chMask, disp,
                  cred, target, chDisp,
                  memVars, chState, chTerm, out, hist >>

\* fprintf (stderr, "pthread_create: ..."); exit (EXIT_FAILURE)
CoCreateFailExit ==
  /\ Alive /\ coPc = "create_failed"
  /\ out' = Append(out, <<"error", "pthread_create">>)
  /\ procExit' = "failure"
  /\ coPc' = "exited"
  /\ UNCHANGED << spPc, chPc, coMask, spMask, chMask, disp,
                  cred, target, chDisp, memVars,
                  chState, chTerm, hist >>

\* mutant: main's other work changes its credentials (a set*id call)
CoWork_Setuid ==
  /\ Alive /\ coPc = "work"
  /\ coPc' = "join"
  /\ cred' = [cred EXCEPT !.co = "user"]
  /\ UNCHANGED << spPc, chPc, procExit, coMask, spMask, chMask, disp, target,
                  chDisp, memVars, chState, chTerm, out, hist >>

\* "Do some other work while the helper launches the application": the
\* work of main between pthread_create and pthread_join; the program does
\* none and calls no set*id function
CoWork ==
  /\ Alive /\ coPc = "work"
  /\ coPc' = "join"
  /\ UNCHANGED << spPc, chPc, procExit, coMask, spMask, chMask, disp, cred,
                  target, chDisp, memVars, chState, chTerm, out, hist >>

\* mutant: pthread_join returns 0 without waiting for run_thread
CoJoinOk_NoWait ==
  /\ Alive /\ coPc = "join"
  /\ coPc' = "joined"
  /\ UNCHANGED << spPc, chPc, procExit, coMask, spMask, chMask, disp,
                  cred, target, chDisp,
                  memVars, chState, chTerm, out, hist >>

\* pthread_join returns 0 once run_thread has returned
CoJoinOk ==
  /\ Alive /\ coPc = "join"
  /\ spPc = "returned"
  /\ coPc' = "joined"
  /\ UNCHANGED << spPc, chPc, procExit, coMask, spMask, chMask, disp,
                  cred, target, chDisp,
                  memVars, chState, chTerm, out, hist >>

\* pthread_join returns an error
CoJoinFail ==
  /\ Alive /\ coPc = "join"
  /\ coPc' = "join_failed"
  /\ UNCHANGED << spPc, chPc, procExit, coMask, spMask, chMask, disp,
                  cred, target, chDisp,
                  memVars, chState, chTerm, out, hist >>

\* mutant: the failed join is reported but the process exits with success
CoJoinFailExit_Success ==
  /\ Alive /\ coPc = "join_failed"
  /\ out' = Append(out, <<"error", "pthread_join">>)
  /\ procExit' = "success"
  /\ coPc' = "exited"
  /\ UNCHANGED << spPc, chPc, coMask, spMask, chMask, disp,
                  cred, target, chDisp, memVars,
                  chState, chTerm, hist >>

\* fprintf (stderr, "pthread_join: ..."); exit (EXIT_FAILURE)
CoJoinFailExit ==
  /\ Alive /\ coPc = "join_failed"
  /\ out' = Append(out, <<"error", "pthread_join">>)
  /\ procExit' = "failure"
  /\ coPc' = "exited"
  /\ UNCHANGED << spPc, chPc, coMask, spMask, chMask, disp,
                  cred, target, chDisp, memVars,
                  chState, chTerm, hist >>

\* exit (EXIT_SUCCESS)
CoExitSuccess ==
  /\ Alive /\ coPc = "joined"
  /\ procExit' = "success"
  /\ coPc' = "exited"
  /\ UNCHANGED << spPc, chPc, coMask, spMask, chMask, disp,
                  cred, target, chDisp, memVars,
                  chState, chTerm, out, hist >>

(* ---------------------------------------------------------------------- *)
(* Spawner: run_thread, parent side                                        *)
(* ---------------------------------------------------------------------- *)
coVars == << coPc, coMask >>
chProc == << chPc, chMask, chDisp, chState, chTerm >>

\* sigfillset (&signal_mask)
SpSigfillset ==
  /\ Alive /\ spPc = "sigfillset"
  /\ signal_mask' = Sigs
  /\ spPc' = "block"
  /\ UNCHANGED << coVars, chProc, procExit, spMask, disp,
                  cred, target, old_signal_mask,
                  empty_mask, newsa, oldsa, i, ret, errno, child, waited,
                  status, out, hist >>

\* mutant: the old mask is fetched but nothing is blocked
SpBlock_SaveOnly ==
  /\ Alive /\ spPc = "block"
  /\ old_signal_mask' = spMask
  /\ spMask' = spMask
  /\ hist' = [hist EXCEPT !.preMask = spMask]
  /\ spPc' = "vfork"
  /\ UNCHANGED << coVars, chProc, procExit, disp,
                  cred, target, signal_mask, empty_mask,
                  newsa, oldsa, i, ret, errno, child, waited, status, out >>

\* pthread_sigmask (SIG_BLOCK, &signal_mask, &old_signal_mask)
SpBlock ==
  /\ Alive /\ spPc = "block"
  /\ old_signal_mask' = spMask
  /\ spMask' = spMask \cup signal_mask
  /\ hist' = [hist EXCEPT !.preMask = spMask]
  /\ spPc' = "vfork"
  /\ UNCHANGED << coVars, chProc, procExit, disp,
                  cred, target, signal_mask, empty_mask,
                  newsa, oldsa, i, ret, errno, child, waited, status, out >>

\* mutant: the -1 of vfork is taken for a pid and the parent path is run
SpVforkFail_AsParent ==
  /\ Alive /\ spPc = "vfork"
  /\ child' = -1
  /\ errno' = "EOTHER"
  /\ hist' = [hist EXCEPT !.vforkFailed = TRUE]
  /\ spPc' = "restore"
  /\ UNCHANGED << coVars, chProc, procExit, spMask, disp,
                  cred, target, signal_mask,
                  old_signal_mask, empty_mask, newsa, oldsa, i, ret, waited,
                  status, out >>

\* child = vfork () returns -1: no child exists
SpVforkFail ==
  /\ Alive /\ spPc = "vfork"
  /\ child' = -1
  /\ errno' = "EOTHER"
  /\ hist' = [hist EXCEPT !.vforkFailed = TRUE]
  /\ spPc' = "fail_restore"
  /\ UNCHANGED << coVars, chProc, procExit, spMask, disp,
                  cred, target, signal_mask,
                  old_signal_mask, empty_mask, newsa, oldsa, i, ret, waited,
                  status, out >>

\* child = vfork () creates the child: it inherits the calling thread's mask
\* and a copy of the dispositions, runs on the Spawner's stack and sees 0;
\* the Spawner is suspended
SpVfork ==
  /\ Alive /\ spPc = "vfork"
  /\ child' = 0
  /\ chState' = "running"
  /\ chPc' = "start"
  /\ chMask' = spMask
  /\ chDisp' = disp
  /\ cred' = [cred EXCEPT !.ch = cred.sp]
  /\ spPc' = "suspended"
  /\ UNCHANGED << coVars, procExit, spMask, disp, target, signal_mask,
                  old_signal_mask, empty_mask, newsa, oldsa, i, ret, errno,
                  waited, status, chTerm, out, hist >>

\* mutant: the parent is not suspended (fork semantics): it resumes at any time
SpResume_NoSuspend ==
  /\ Alive /\ spPc = "suspended"
  /\ chState \in {"running", "replaced", "zombie"}
  /\ child' = ChildPid
  /\ spPc' = "restore"
  /\ UNCHANGED << coVars, chProc, procExit, spMask, disp,
                  cred, target, signal_mask,
                  old_signal_mask, empty_mask, newsa, oldsa, i, ret, errno,
                  waited, status, out, hist >>

\* vfork returns the child's pid in the parent once the child has replaced
\* its image or terminated
SpResume ==
  /\ Alive /\ spPc = "suspended"
  /\ chState \in {"replaced", "zombie"}
  /\ child' = ChildPid
  /\ spPc' = "restore"
  /\ UNCHANGED << coVars, chProc, procExit, spMask, disp,
                  cred, target, signal_mask,
                  old_signal_mask, empty_mask, newsa, oldsa, i, ret, errno,
                  waited, status, out, hist >>

\* mutant: no restore on the vfork failure path
SpFailRestore_Missing ==
  /\ Alive /\ spPc = "fail_restore"
  /\ spPc' = "fail_perror"
  /\ UNCHANGED << coVars, chProc, procExit, disp, cred, target, memVars, out,
                  spMask, hist >>

\* child == -1: pthread_sigmask (SIG_SETMASK, &old_signal_mask, NULL)
SpFailRestore ==
  /\ Alive /\ spPc = "fail_restore"
  /\ spMask' = old_signal_mask
  /\ hist' = [hist EXCEPT !.restores = @ + 1]
  /\ spPc' = "fail_perror"
  /\ UNCHANGED << coVars, chProc, procExit, disp, cred, target, memVars, out >>

\* perror ("vfork")
SpFailPerror ==
  /\ Alive /\ spPc = "fail_perror"
  /\ out' = Append(out, <<"perror", "vfork">>)
  /\ spPc' = "fail_exit"
  /\ UNCHANGED << coVars, chProc, procExit, spMask, disp,
                  cred, target, memVars, hist >>

\* exit (EXIT_FAILURE)
SpFailExit ==
  /\ Alive /\ spPc = "fail_exit"
  /\ procExit' = "failure"
  /\ spPc' = "exited_vfork"
  /\ UNCHANGED << coVars, chProc, spMask, disp,
                  cred, target, memVars, out, hist >>

\* mutant: the parent continuation leaves the all-blocked mask in place
SpRestore_Skipped ==
  /\ Alive /\ spPc = "restore"
  /\ hist' = [hist EXCEPT !.restores = @ + 1]
  /\ spPc' = "waitpid"
  /\ UNCHANGED << coVars, chProc, procExit, spMask, disp,
                  cred, target, memVars, out >>

\* parent continuation: pthread_sigmask (SIG_SETMASK, &old_signal_mask, NULL)
SpRestore ==
  /\ Alive /\ spPc = "restore"
  /\ spMask' = old_signal_mask
  /\ hist' = [hist EXCEPT !.restores = @ + 1]
  /\ spPc' = "waitpid"
  /\ UNCHANGED << coVars, chProc, procExit, disp, cred, target, memVars, out >>

\* mutant: waitpid waits for the pid the child saw (0), which never ends
SpWaitpidOk_WrongPid ==
  /\ Alive /\ spPc = "waitpid"
  /\ chState = "zombie" /\ child = 0
  /\ waited' = child
  /\ status' = EncodeStatus(chTerm)
  /\ chState' = "reaped"
  /\ hist' = [hist EXCEPT !.waitCalls = @ + 1]
  /\ spPc' = "decode"
  /\ UNCHANGED << coVars, chPc, chMask, chDisp, chTerm, procExit, spMask,
                  disp,
                  cred, target, signal_mask, old_signal_mask, empty_mask, newsa,
                  oldsa, i, ret, errno, child, out >>

\* waited = waitpid (child, &status, 0) returns once the child has terminated
SpWaitpidOk ==
  /\ Alive /\ spPc = "waitpid"
  /\ chState = "zombie"
  /\ waited' = child
  /\ status' = EncodeStatus(chTerm)
  /\ chState' = "reaped"
  /\ hist' = [hist EXCEPT !.waitCalls = @ + 1]
  /\ spPc' = "decode"
  /\ UNCHANGED << coVars, chPc, chMask, chDisp, chTerm, procExit, spMask,
                  disp,
                  cred, target, signal_mask, old_signal_mask, empty_mask, newsa,
                  oldsa, i, ret, errno, child, out >>

\* mutant: the result of waitpid is not tested
SpWaitpidFail_Unchecked ==
  /\ Alive /\ spPc = "waitpid"
  /\ waited' = -1
  /\ errno' = "EOTHER"
  /\ hist' = [hist EXCEPT !.waitCalls = @ + 1]
  /\ spPc' = "decode"
  /\ UNCHANGED << coVars, chProc, procExit, spMask, disp,
                  cred, target, signal_mask,
                  old_signal_mask, empty_mask, newsa, oldsa, i, ret, child,
                  status, out >>

\* waitpid returns -1
SpWaitpidFail ==
  /\ Alive /\ spPc = "waitpid"
  /\ waited' = -1
  /\ errno' = "EOTHER"
  /\ hist' = [hist EXCEPT !.waitCalls = @ + 1]
  /\ spPc' = "wait_perror"
  /\ UNCHANGED << coVars, chProc, procExit, spMask, disp,
                  cred, target, signal_mask,
                  old_signal_mask, empty_mask, newsa, oldsa, i, ret, child,
                  status, out >>

\* perror ("wait")
SpWaitPerror ==
  /\ Alive /\ spPc = "wait_perror"
  /\ out' = Append(out, <<"perror", "wait">>)
  /\ spPc' = "wait_exit"
  /\ UNCHANGED << coVars, chProc, procExit, spMask, disp,
                  cred, target, memVars, hist >>

\* exit (EXIT_FAILURE)
SpWaitExit ==
  /\ Alive /\ spPc = "wait_exit"
  /\ procExit' = "failure"
  /\ spPc' = "exited_wait"
  /\ UNCHANGED << coVars, chProc, spMask, disp,
                  cred, target, memVars, out, hist >>

\* if (WIFEXITED(status)) printf ... else if (WIFSIGNALED(status)) printf ...
SpDecode ==
  /\ Alive /\ spPc = "decode"
  /\ out' = out \o Report(status)
  /\ hist' = [hist EXCEPT !.decoded = @ + 1]
  /\ spPc' = "return"
  /\ UNCHANGED << coVars, chProc, procExit, spMask, disp,
                  cred, target, memVars >>

\* return NULL
SpReturn ==
  /\ Alive /\ spPc = "return"
  /\ spPc' = "returned"
  /\ UNCHANGED << coVars, chProc, procExit, spMask, disp,
                  cred, target, memVars, out, hist >>

(* ---------------------------------------------------------------------- *)
(* Child continuation: the body of `if (child == 0)`                       *)
(* ---------------------------------------------------------------------- *)
parVars == << coVars, spPc, procExit, spMask, disp, cred, target, out >>
\* run_thread locals and globals the child code does not assign
keptMem == << signal_mask, old_signal_mask, child, waited, status >>

\* position after the loop's i++ (or its i = 0): the test i < NSIG
LoopPc(n) == IF n < NSIG THEN "query" ELSE "restoremask"

\* _exit (code)
ChExitWith(code) ==
  /\ chState' = "zombie"
  /\ chTerm' = [kind |-> "exit", val |-> code, core |-> 0]
  /\ chPc' = "terminated"

\* newsa.sa_handler = SIG_DFL
ChStart ==
  /\ chState = "running" /\ chPc = "start"
  /\ newsa' = [newsa EXCEPT !.sa_handler = "SIG_DFL"]
  /\ chPc' = "sigemptyset"
  /\ hist' = [hist EXCEPT !.childRan = TRUE, !.chSteps = @ + 1]
  /\ UNCHANGED << parVars, keptMem, chMask, chDisp, chState, chTerm,
                  empty_mask, oldsa, i, ret, errno >>

\* mutant: sigemptyset clears old_signal_mask instead of empty_mask
ChSigemptysetOk_WrongSet ==
  /\ chState = "running" /\ chPc = "sigemptyset"
  /\ old_signal_mask' = {}
  /\ chPc' = "template"
  /\ hist' = [hist EXCEPT !.childRan = TRUE, !.chSteps = @ + 1]
  /\ UNCHANGED << parVars, signal_mask, empty_mask, child, waited, status,
                  chMask, chDisp, chState, chTerm, newsa, oldsa, i, ret,
                  errno >>

\* sigemptyset (&empty_mask) returns 0
ChSigemptysetOk ==
  /\ chState = "running" /\ chPc = "sigemptyset"
  /\ empty_mask' = {}
  /\ chPc' = "template"
  /\ hist' = [hist EXCEPT !.childRan = TRUE, !.chSteps = @ + 1]
  /\ UNCHANGED << parVars, keptMem, chMask, chDisp, chState, chTerm,
                  newsa, oldsa, i, ret, errno >>

\* sigemptyset (&empty_mask) != 0: _exit (1)
ChSigemptysetFail ==
  /\ chState = "running" /\ chPc = "sigemptyset"
  /\ ChExitWith(1)
  /\ hist' = [hist EXCEPT !.childRan = TRUE, !.chSteps = @ + 1]
  /\ UNCHANGED << parVars, keptMem, chMask, chDisp, empty_mask, newsa, oldsa,
                  i, ret, errno >>

\* newsa.sa_mask = empty_mask; newsa.sa_flags = 0; newsa.sa_restorer = 0;
\* for (i = 0; ...
ChTemplate ==
  /\ chState = "running" /\ chPc = "template"
  /\ newsa' = [newsa EXCEPT !.sa_mask = empty_mask, !.sa_flags = 0]
  /\ i' = 0
  /\ chPc' = LoopPc(0)
  /\ hist' = [hist EXCEPT !.childRan = TRUE, !.chSteps = @ + 1]
  /\ UNCHANGED << parVars, keptMem, chMask, chDisp, chState, chTerm,
                  empty_mask, oldsa, ret, errno >>

\* ret = sigaction (i, NULL, &oldsa) returns 0: i is a signal
ChQueryOk ==
  /\ chState = "running" /\ chPc = "query"
  /\ i \in Sigs
  /\ ret' = 0
  /\ oldsa' = chDisp[i]
  /\ chPc' = "test"
  /\ hist' = [hist EXCEPT !.childRan = TRUE, !.chSteps = @ + 1,
                          !.order = Append(@, i)]
  /\ UNCHANGED << parVars, keptMem, chMask, chDisp, chState, chTerm,
                  empty_mask, newsa, i, errno >>

\* ret = sigaction (i, NULL, &oldsa) fails: always for i = 0, which is not a
\* signal, and for any signal the C library refuses to report; EINVAL is the
\* one error of a query with valid pointers
ChQueryFail ==
  /\ chState = "running" /\ chPc = "query"
  /\ ret' = -1
  /\ errno' = "EINVAL"
  /\ chPc' = "test"
  /\ hist' = [hist EXCEPT !.childRan = TRUE, !.chSteps = @ + 1,
                          !.qfail = @ \cup {i}, !.order = Append(@, i)]
  /\ UNCHANGED << parVars, keptMem, chMask, chDisp, chState, chTerm,
                  empty_mask, newsa, oldsa, i >>

\* mutant: a failed query ends the child with code 1
ChTest_QueryFatal ==
  /\ chState = "running" /\ chPc = "test"
  /\ IF ret # 0
       THEN /\ ChExitWith(1)
            /\ i' = i
       ELSE /\ IF oldsa # "SIG_IGN" /\ oldsa # "SIG_DFL"
                 THEN /\ chPc' = "set"
                      /\ i' = i
                 ELSE /\ i' = i + 1
                      /\ chPc' = LoopPc(i + 1)
            /\ UNCHANGED << chState, chTerm >>
  /\ hist' = [hist EXCEPT !.childRan = TRUE, !.chSteps = @ + 1]
  /\ UNCHANGED << parVars, keptMem, chMask, chDisp, empty_mask, newsa, oldsa,
                  ret, errno >>

\* if (ret == 0 && oldsa.sa_handler != SIG_IGN && oldsa.sa_handler != SIG_DFL)
\* else the loop's i++
ChTest ==
  /\ chState = "running" /\ chPc = "test"
  /\ IF ret = 0 /\ oldsa # "SIG_IGN" /\ oldsa # "SIG_DFL"
       THEN /\ chPc' = "set"
            /\ i' = i
       ELSE /\ i' = i + 1
            /\ chPc' = LoopPc(i + 1)
  /\ hist' = [hist EXCEPT !.childRan = TRUE, !.chSteps = @ + 1]
  /\ UNCHANGED << parVars, keptMem, chMask, chDisp, chState, chTerm,
                  empty_mask, newsa, oldsa, ret, errno >>

\* ret = sigaction (i, &newsa, NULL) returns 0: the disposition is newsa's
ChSetOk ==
  /\ chState = "running" /\ chPc = "set"
  /\ i \in Sigs
  /\ chDisp' = [chDisp EXCEPT ![i] = newsa.sa_handler]
  /\ ret' = 0
  /\ chPc' = "checkset"
  /\ hist' = [hist EXCEPT !.childRan = TRUE, !.chSteps = @ + 1,
                          !.sets = Append(@, i)]
  /\ UNCHANGED << parVars, keptMem, chMask, chState, chTerm, empty_mask,
                  newsa, oldsa, i, errno >>

\* ret = sigaction (i, &newsa, NULL) fails with errno e: nothing is changed
ChSetFail(e) ==
  /\ chState = "running" /\ chPc = "set"
  /\ ret' = -1
  /\ errno' = e
  /\ chPc' = "checkset"
  /\ hist' = [hist EXCEPT !.childRan = TRUE, !.chSteps = @ + 1,
                          !.seinval = IF e = "EINVAL" THEN @ \cup {i} ELSE @,
                          !.sets = Append(@, i)]
  /\ UNCHANGED << parVars, keptMem, chMask, chDisp, chState, chTerm,
                  empty_mask, newsa, oldsa, i >>

\* mutant: after EINVAL the set is tried again
ChCheckSet_Retry ==
  /\ chState = "running" /\ chPc = "checkset"
  /\ IF ret # 0 /\ errno # "EINVAL"
       THEN /\ ChExitWith(2)
            /\ i' = i
       ELSE /\ i' = IF ret # 0 THEN i ELSE i + 1
            /\ chPc' = IF ret # 0 THEN "set" ELSE LoopPc(i + 1)
            /\ UNCHANGED << chState, chTerm >>
  /\ hist' = [hist EXCEPT !.childRan = TRUE, !.chSteps = @ + 1]
  /\ UNCHANGED << parVars, keptMem, chMask, chDisp, empty_mask, newsa, oldsa,
                  ret, errno >>

\* mutant: every failure of the set call is fatal, EINVAL too
ChCheckSet_NoErrnoTest ==
  /\ chState = "running" /\ chPc = "checkset"
  /\ IF ret # 0
       THEN /\ ChExitWith(2)
            /\ i' = i
       ELSE /\ i' = i + 1
            /\ chPc' = LoopPc(i + 1)
            /\ UNCHANGED << chState, chTerm >>
  /\ hist' = [hist EXCEPT !.childRan = TRUE, !.chSteps = @ + 1]
  /\ UNCHANGED << parVars, keptMem, chMask, chDisp, empty_mask, newsa, oldsa,
                  ret, errno >>

\* if (ret != 0 && errno != EINVAL) _exit (2); else the loop's i++
ChCheckSet ==
  /\ chState = "running" /\ chPc = "checkset"
  /\ IF ret # 0 /\ errno # "EINVAL"
       THEN /\ ChExitWith(2)
            /\ i' = i
       ELSE /\ i' = i + 1
            /\ chPc' = LoopPc(i + 1)
            /\ UNCHANGED << chState, chTerm >>
  /\ hist' = [hist EXCEPT !.childRan = TRUE, !.chSteps = @ + 1]
  /\ UNCHANGED << parVars, keptMem, chMask, chDisp, empty_mask, newsa, oldsa,
                  ret, errno >>

\* mutant: the child installs empty_mask, unblocking every signal
ChRestoreMask_EmptyMask ==
  /\ chState = "running" /\ chPc = "restoremask"
  /\ chMask' = empty_mask
  /\ chPc' = "execve"
  /\ hist' = [hist EXCEPT !.childRan = TRUE, !.chSteps = @ + 1]
  /\ UNCHANGED << parVars, memVars, chDisp, chState, chTerm >>

\* pthread_sigmask (SIG_SETMASK, &old_signal_mask, NULL) in the child
ChRestoreMask ==
  /\ chState = "running" /\ chPc = "restoremask"
  /\ chMask' = old_signal_mask
  /\ chPc' = "execve"
  /\ hist' = [hist EXCEPT !.childRan = TRUE, !.chSteps = @ + 1]
  /\ UNCHANGED << parVars, memVars, chDisp, chState, chTerm >>

\* execve (filename, new_argv, new_envp) succeeds: the child leaves the
\* shared address space; the kernel resets caught signals to the default
ChExecveOk ==
  /\ chState = "running" /\ chPc = "execve"
  /\ chState' = "replaced"
  /\ chPc' = "replaced"
  /\ chDisp' = [s \in Sigs |-> IF chDisp[s] = "HANDLER" THEN "SIG_DFL"
                                                       ELSE chDisp[s]]
  /\ hist' = [hist EXCEPT !.childRan = TRUE, !.chSteps = @ + 1,
                          !.execAttempts = @ + 1,
                          !.targetRan = TRUE]
  /\ UNCHANGED << parVars, memVars, chMask, chTerm >>

\* ret = execve (...) returns -1
ChExecveFail(e) ==
  /\ chState = "running" /\ chPc = "execve"
  /\ ret' = -1
  /\ errno' = e
  /\ chPc' = "exit3"
  /\ hist' = [hist EXCEPT !.childRan = TRUE, !.chSteps = @ + 1,
                          !.execAttempts = @ + 1]
  /\ UNCHANGED << parVars, keptMem, chMask, chDisp, chState, chTerm,
                  empty_mask, newsa, oldsa, i >>

\* mutant: no _exit after the failed execve, the child runs on into the
\* code after the if block
ChExit3_FallThrough ==
  /\ chState = "running" /\ chPc = "exit3"
  /\ chPc' = "restore"
  /\ hist' = [hist EXCEPT !.childRan = TRUE, !.chSteps = @ + 1]
  /\ UNCHANGED << parVars, memVars, chMask, chDisp, chState, chTerm >>

\* _exit (3)
ChExit3 ==
  /\ chState = "running" /\ chPc = "exit3"
  /\ ChExitWith(3)
  /\ hist' = [hist EXCEPT !.childRan = TRUE, !.chSteps = @ + 1]
  /\ UNCHANGED << parVars, memVars, chMask, chDisp >>

(* ---------------------------------------------------------------------- *)
(* The target program, once the image is replaced                          *)
(* ---------------------------------------------------------------------- *)
\* the target program exits with code c
TargetExit(c) ==
  /\ chState = "replaced"
  /\ chState' = "zombie"
  /\ chTerm' = [kind |-> "exit", val |-> c, core |-> 0]
  /\ UNCHANGED << parVars, memVars, chPc, chMask, chDisp, hist >>

\* the target program is killed by signal s
TargetKilled(s, core) ==
  /\ chState = "replaced"
  /\ chState' = "zombie"
  /\ chTerm' = [kind |-> "signal", val |-> s, core |-> core]
  /\ UNCHANGED << parVars, memVars, chPc, chMask, chDisp, hist >>

(* ---------------------------------------------------------------------- *)
(* Specification                                                           *)
(* ---------------------------------------------------------------------- *)
Next ==
  \/ CoCreateOk
  \/ CoCreateFail
  \/ CoCreateFailExit
  \/ CoWork
  \/ CoJoinOk
  \/ CoJoinFail
  \/ CoJoinFailExit
  \/ CoExitSuccess
  \/ SpSigfillset
  \/ SpBlock
  \/ SpVforkFail
  \/ SpVfork
  \/ SpResume
  \/ SpFailRestore
  \/ SpFailPerror
  \/ SpFailExit
  \/ SpRestore
  \/ SpWaitpidOk
  \/ SpWaitpidFail
  \/ SpWaitPerror
  \/ SpWaitExit
  \/ SpDecode
  \/ SpReturn
  \/ ChStart
  \/ ChSigemptysetOk
  \/ ChSigemptysetFail
  \/ ChTemplate
  \/ ChQueryOk
  \/ ChQueryFail
  \/ ChTest
  \/ ChSetOk
  \/ \E e \in Errnos : ChSetFail(e)
  \/ ChCheckSet
  \/ ChRestoreMask
  \/ ChExecveOk
  \/ \E e \in Errnos : ChExecveFail(e)
  \/ ChExit3
  \/ \E c \in TargetCodes : TargetExit(c)
  \/ \E s \in Sigs, core \in {0, 1} : TargetKilled(s, core)

Spec == Init /\ [][Next]_vars

(* ---------------------------------------------------------------------- *)
(* Fair scheduling                                                         *)
(* ---------------------------------------------------------------------- *)
\* the steps main takes when it is scheduled; a failure of the blocking
\* pthread_join is possible but never forced
CoStep ==
  \/ CoCreateOk \/ CoCreateFail \/ CoCreateFailExit \/ CoWork
  \/ CoJoinOk \/ CoJoinFailExit \/ CoExitSuccess

\* the steps the Spawner takes when it is scheduled; a failure of the
\* blocking waitpid is possible but never forced
SpStep ==
  \/ SpSigfillset \/ SpBlock \/ SpVforkFail \/ SpVfork \/ SpResume
  \/ SpFailRestore \/ SpFailPerror \/ SpFailExit \/ SpRestore
  \/ SpWaitpidOk \/ SpWaitPerror \/ SpWaitExit \/ SpDecode \/ SpReturn

\* the steps of the child continuation
ChStep ==
  \/ ChStart \/ ChSigemptysetOk \/ ChSigemptysetFail \/ ChTemplate
  \/ ChQueryOk \/ ChQueryFail \/ ChTest
  \/ ChSetOk \/ (\E e \in Errnos : ChSetFail(e)) \/ ChCheckSet
  \/ ChRestoreMask \/ ChExecveOk \/ (\E e \in Errnos : ChExecveFail(e))
  \/ ChExit3

\* the target program terminates
TargetStep ==
  \/ \E c \in TargetCodes : TargetExit(c)
  \/ \E s \in Sigs, core \in {0, 1} : TargetKilled(s, core)

\* the initial states in which main blocks no signal: the masks play no
\* part in what is enabled
InitFair == Init /\ coMask = {}

\* every thread and the child are scheduled fairly, and the child process
\* eventually terminates
SpecFair ==
  /\ InitFair /\ [][Next]_vars
  /\ WF_vars(CoStep) /\ WF_vars(SpStep) /\ WF_vars(ChStep)
  /\ WF_vars(TargetStep)

(* ---------------------------------------------------------------------- *)
(* Two executions, to compare what the Spawner reports                     *)
(* ---------------------------------------------------------------------- *)
\* A first execution in which the child ended with a reserved code before
\* the target ran is over: its report is kept in hist.prev and a second
\* execution starts from an initial state (one in which main blocks no
\* signal: the report does not depend on the masks).
Restart ==
  /\ spPc = "returned" /\ ~hist.targetRan /\ hist.prev = {}
  /\ coPc' = "create"
  /\ spPc' = "none"
  /\ chPc' = "none"
  /\ procExit' = "none"
  /\ coMask' = {}
  /\ spMask' = {}
  /\ chMask' = {}
  /\ disp' \in [Sigs -> Dispositions]
  /\ chDisp' = disp'
  /\ cred' = [co |-> "root", sp |-> "none", ch |-> "none"]
  /\ target' = TheTarget
  /\ signal_mask' = {}
  /\ old_signal_mask' = {}
  /\ empty_mask' = Sigs
  /\ newsa' = [sa_handler |-> "HANDLER", sa_mask |-> Sigs, sa_flags |-> 1]
  /\ oldsa' = "SIG_DFL"
  /\ i' = 0
  /\ ret' = 0
  /\ errno' = "none"
  /\ child' = 0
  /\ waited' = 0
  /\ status' = 0
  /\ chState' = "none"
  /\ chTerm' = NoTerm
  /\ out' = << >>
  /\ hist' = [InitHist EXCEPT !.prev =
                {SelectSeq(out, LAMBDA r : r[1] \in {"Exited", "Signaled"})}]

NextPair == Next \/ Restart

SpecPair == Init /\ [][NextPair]_vars

(* ---------------------------------------------------------------------- *)
(* Properties                                                              *)
(* ---------------------------------------------------------------------- *)
\* the lines run_thread printed about the child's termination
IsReport(r) == r[1] \in {"Exited", "Signaled"}
ReportLines == SelectSeq(out, IsReport)
Printed(r) == \E k \in 1 .. Len(out) : out[k] = r

SpEnded == spPc \in {"return", "returned", "fail_exit", "exited_vfork",
                     "wait_exit", "exited_wait"}

\* C1: wherever run_thread ends (return after the reap, exit after vfork
\* failed, exit after waitpid failed) the Spawner thread's mask is the mask
\* it had just before pthread_sigmask (SIG_BLOCK, all).
C1_MaskRestoredAtEnd == SpEnded => spMask = hist.preMask

C1_Witness ==
  /\ spPc = "returned"
  /\ hist.preMask # {} /\ hist.preMask # Sigs
  /\ spMask = hist.preMask

\* C2 (as claimed): once the disposition loop has finished, no signal of the
\* child has a handler: former handlers are SIG_DFL, SIG_IGN is kept.
LoopFinished == chState = "running" /\ chPc \in {"restoremask", "execve"}

C2_NoHandlerAfterLoop ==
  LoopFinished =>
    \A s \in Sigs : /\ chDisp[s] # "HANDLER"
                    /\ disp[s] = "HANDLER" => chDisp[s] = "SIG_DFL"
                    /\ disp[s] = "SIG_IGN" => chDisp[s] = "SIG_IGN"

\* C3 (as claimed): between vfork and execve or _exit, every signal that is
\* unblocked in the child has disposition SIG_DFL or SIG_IGN in the child.
C3_NoUnblockedHandler ==
  chState = "running" => \A s \in Sigs \ chMask : chDisp[s] # "HANDLER"

\* C4: after a successful reap exactly one line is reported and it tells the
\* child's actual termination: Exited(c) for an exit with code c,
\* Signaled(s) for a death by signal s.
C4_ReportIsTermination ==
  /\ hist.decoded = 0 => ReportLines = << >>
  /\ hist.decoded > 0 =>
       ReportLines = << IF chTerm.kind = "exit"
                          THEN <<"Exited", chTerm.val>>
                          ELSE <<"Signaled", chTerm.val>> >>

C4_Witness ==
  /\ spPc = "returned"
  /\ chTerm.kind = "exit" /\ chTerm.val = 255
  /\ ReportLines = << <<"Exited", 255>> >>

\* C5: when vfork returns -1 the Spawner restores old_signal_mask, reports
\* "vfork" and exits with failure; no child step runs, waitpid is not called
\* and no status is decoded or reported.
VforkFailPcs == {"fail_restore", "fail_perror", "fail_exit", "exited_vfork"}

C5_VforkFailure ==
  hist.vforkFailed =>
    /\ child = -1
    /\ spPc \in VforkFailPcs
    /\ ~hist.childRan /\ chState = "none" /\ chPc = "none"
    /\ hist.waitCalls = 0 /\ hist.decoded = 0 /\ ReportLines = << >>
    /\ spPc # "fail_restore" => spMask = hist.preMask /\ hist.restores = 1
    /\ spPc \in {"fail_exit", "exited_vfork"} => Printed(<<"perror", "vfork">>)
    /\ spPc = "exited_vfork" => procExit = "failure"

C5_Witness ==
  /\ hist.vforkFailed /\ spPc = "exited_vfork"
  /\ hist.preMask # Sigs /\ procExit = "failure"

\* C6: when waitpid fails the Spawner reports "wait" and exits with failure,
\* without a second waitpid and without decoding or reporting a status;
\* waitpid is called at most once.
WaitFailPcs == {"wait_perror", "wait_exit", "exited_wait"}

C6_WaitFailure ==
  /\ hist.waitCalls <= 1
  /\ (hist.waitCalls = 1 /\ waited = -1) <=> spPc \in WaitFailPcs
  /\ spPc \in WaitFailPcs =>
       /\ hist.decoded = 0 /\ ReportLines = << >>
       /\ spPc # "wait_perror" => Printed(<<"perror", "wait">>)
       /\ spPc = "exited_wait" => procExit = "failure"

C6_Witness ==
  /\ spPc = "exited_wait" /\ hist.waitCalls = 1
  /\ chState = "replaced" /\ procExit = "failure"

\* the child's step from the test that follows a failed query
AfterFailedQuery == chPc = "test" /\ ret # 0 /\ chPc' # chPc
ExitedPreExec(code) ==
  chPc = "terminated" /\ chTerm.kind = "exit" /\ chTerm.val = code

\* C7 (as claimed): a failed query ends the child at once with code 1.
C7_QueryFailureFatal ==
  [][AfterFailedQuery => (chPc' = "terminated" /\ chTerm'.val = 1)]_vars

\* C7 (amended): a failed query makes the child skip that signal number: no
\* set is tried, no disposition changes and the loop goes on with i + 1; the
\* child ends with code 1 only when sigemptyset failed, before the loop.
C7_QueryFailureSkipped ==
  /\ [][AfterFailedQuery =>
          /\ i' = i + 1 /\ chPc' = LoopPc(i + 1)
          /\ chState' = "running" /\ chDisp' = chDisp]_vars
  /\ [](ExitedPreExec(1) => hist.qfail = {} /\ i = 0)

C7_Witness ==
  /\ 1 \in hist.qfail /\ disp[1] = "HANDLER"
  /\ chPc = "replaced"

\* the child's step from the test that follows a failed set
AfterFailedSet == chPc = "checkset" /\ ret # 0 /\ chPc' # chPc

\* C8: after a failed set the child skips the signal and goes on when errno
\* is EINVAL, and ends with code 2 for any other error, never reaching
\* execve.
C8_SetFailureSplit ==
  /\ [][AfterFailedSet =>
          IF errno = "EINVAL"
            THEN /\ i' = i + 1 /\ chPc' = LoopPc(i + 1)
                 /\ chState' = "running" /\ chDisp' = chDisp
            ELSE /\ chPc' = "terminated" /\ chState' = "zombie"
                 /\ chTerm' = [kind |-> "exit", val |-> 2, core |-> 0]]_vars
  /\ [](ExitedPreExec(2) =>
          /\ hist.execAttempts = 0 /\ ~hist.targetRan
          /\ ret # 0 /\ errno # "EINVAL")

C8_Witness ==
  /\ ExitedPreExec(2)
  /\ hist.seinval = {1} /\ i = 2

\* C9: the child ends in a successful execve or in _exit with 1, 2 or 3,
\* with 3 exactly when execve was tried and failed; it never runs parent
\* code: no child step changes the Spawner's mask, the output, the status or
\* the counts of restores and waits.
ChildPcs == {"none", "start", "sigemptyset", "template", "query", "test",
             "set", "checkset", "restoremask", "execve", "exit3", "replaced",
             "terminated"}

C9_ChildNeverFallsThrough ==
  /\ [](/\ chPc \in ChildPcs
        /\ chPc = "terminated" =>
             /\ chTerm.kind = "exit" /\ chTerm.val \in {1, 2, 3}
             /\ ~hist.targetRan
        /\ ExitedPreExec(3) <=>
             (hist.execAttempts = 1 /\ ~hist.targetRan /\ chPc # "exit3")
        /\ chPc = "replaced" <=> hist.targetRan
        /\ hist.execAttempts <= 1)
  /\ [][(chPc' # chPc /\ chPc # "none") =>
          /\ UNCHANGED << spPc, spMask, out, status, waited, procExit >>
          /\ hist'.restores = hist.restores
          /\ hist'.waitCalls = hist.waitCalls]_vars

C9_Witness ==
  /\ ExitedPreExec(3) /\ spPc = "returned"
  /\ ReportLines = << <<"Exited", 3>> >>

\* second execution over, the target ran and was reaped; the first one ended
\* with a reserved code before the target ran
PairDone == hist.prev # {} /\ spPc = "returned" /\ hist.targetRan

\* C10 (as claimed): the report of an execution in which the target ran and
\* the report of one in which the child ended with a reserved code differ,
\* also when the target itself exits with 1, 2 or 3.
C10_ReportsAlwaysDiffer == PairDone => ReportLines \notin hist.prev

\* C10 (amended): the two reports differ unless the target itself exited
\* normally with code 1, 2 or 3; then the report is the very line printed
\* for the protocol failure with that reserved code.
TargetExitedReserved == chTerm.kind = "exit" /\ chTerm.val \in {1, 2, 3}

C10_ReportsDifferUnlessReservedCode ==
  PairDone =>
    /\ ~TargetExitedReserved => ReportLines \notin hist.prev
    /\ \A p \in hist.prev : \E c \in {1, 2, 3} : p = << <<"Exited", c>> >>
    /\ ReportLines \in hist.prev =>
         ReportLines = << <<"Exited", chTerm.val>> >>

C10_Witness ==
  /\ PairDone
  /\ hist.prev = { << <<"Exited", 2>> >> }
  /\ chTerm.kind = "signal" /\ chTerm.val = 2
  /\ ReportLines = << <<"Signaled", 2>> >>

\* a step of the child continuation
ChildStepped == chPc' # chPc /\ chPc # "none"
LastLine == out[Len(out)]
ProtocolFailed ==
  \/ hist.vforkFailed
  \/ (hist.waitCalls > 0 /\ waited = -1)
  \/ coPc \in {"create_failed", "join_failed"}
  \/ Printed(<<"error", "pthread_create">>)
  \/ Printed(<<"error", "pthread_join">>)

\* C11 (as claimed): the process exits with success only when no protocol
\* failure occurred, a child that ended with reserved code 1, 2 or 3 before
\* replacing its image included.
C11_SuccessOnlyWithoutFailure ==
  procExit = "success" => (~ProtocolFailed /\ chPc # "terminated")

\* C11 (amended): a failure of vfork, waitpid, pthread_create or
\* pthread_join is reported by the thread that met it, which then ends the
\* process with a failure indication; the process exits with success only
\* when none of these four occurred. A child that ended with a reserved
\* code is reaped and reported as an exit like any other, and the process
\* then exits with success.
C11_FailureExitsNonZero ==
  /\ ProtocolFailed => procExit # "success"
  /\ procExit = "success" =>
       /\ coPc = "exited" /\ spPc = "returned" /\ chState = "reaped"
       /\ Len(out) = 1 /\ IsReport(out[1])
  /\ procExit = "failure" =>
       /\ Len(out) > 0
       /\ \/ spPc = "exited_vfork" /\ LastLine = <<"perror", "vfork">>
          \/ spPc = "exited_wait" /\ LastLine = <<"perror", "wait">>
          \/ coPc = "exited" /\ LastLine = <<"error", "pthread_create">>
                             /\ spPc = "none"
          \/ coPc = "exited" /\ LastLine = <<"error", "pthread_join">>
  /\ (ExitedPreExec(1) \/ ExitedPreExec(2) \/ ExitedPreExec(3)) =>
       (spPc \in {"return", "returned"} =>
          ReportLines = << <<"Exited", chTerm.val>> >>)

C11_Witness ==
  /\ procExit = "success" /\ ExitedPreExec(2)
  /\ out = << <<"Exited", 2>> >>

\* C12: no thread changes its credentials while a not-yet-replaced child
\* exists: in every such state the child, the Spawner and main have the
\* same credentials.
C12_NoCredentialChangeInWindow ==
  /\ [](chState = "running" =>
          /\ cred.ch = cred.sp /\ cred.co = cred.ch /\ cred.ch # "none")
  /\ [][chState = "running" => cred' = cred]_vars

C12_Witness ==
  /\ chState = "running" /\ chPc = "execve" /\ spPc = "suspended"
  /\ coPc = "join" /\ cred.co = cred.ch

\* C13: when the child calls execve its mask is the mask the Spawner had
\* before it blocked all signals; until the disposition loop is over for
\* every signal number the child keeps every signal blocked.
ChildBeforeRestore ==
  chState = "running" /\ chPc \notin {"execve", "exit3"}

C13_ChildMaskAtExec ==
  /\ [](ChildBeforeRestore => chMask = Sigs)
  /\ [](chState = "running" /\ chPc \in {"restoremask", "execve"}
          => i = NSIG /\ Len(hist.order) = NSIG)
  /\ [](chState = "running" /\ chPc = "execve" => chMask = hist.preMask)
  /\ [][hist'.execAttempts # hist.execAttempts =>
          chMask = hist.preMask /\ chMask' = chMask]_vars

C13_Witness ==
  /\ hist.execAttempts = 1 /\ chPc = "replaced"
  /\ hist.preMask # {} /\ hist.preMask # Sigs /\ chMask = hist.preMask

\* C14 (as claimed): under fair scheduling, the child process terminating,
\* the Coordinator eventually completes its join and the process
\* eventually terminates.
C14_JoinCompletesAndExits ==
  /\ <>(procExit # "none")
  /\ (coPc = "join") ~> (coPc # "join")

\* C14 (amended): under fair scheduling, the child process terminating, the
\* process eventually terminates, and the Coordinator eventually completes
\* its join unless the Spawner ends the process itself with exit
\* (EXIT_FAILURE), after vfork or waitpid failed; a Coordinator in join never
\* waits forever in a process that lives on.
C14_ProcessTerminates ==
  /\ <>(procExit # "none")
  /\ (coPc = "join") ~>
       (coPc # "join" \/ spPc \in {"exited_vfork", "exited_wait"})

C14_Witness ==
  /\ procExit = "success" /\ coPc = "exited" /\ spPc = "returned"
  /\ hist.targetRan /\ chTerm.kind = "signal"

\* C15: once the all-blocked mask is installed the Spawner restores
\* old_signal_mask exactly once before the cycle ends, on the vfork failure
\* path or on the parent continuation path, and before waitpid is called.
C15_RestoredExactlyOnce ==
  /\ hist.restores <= 1
  /\ SpEnded => hist.restores = 1
  /\ hist.waitCalls > 0 => hist.restores = 1
  /\ spPc \in {"waitpid", "decode", "fail_perror", "wait_perror"}
       => hist.restores = 1
  /\ spPc \in {"vfork", "suspended", "restore", "fail_restore"}
       => hist.restores = 0

C15_Witness ==
  /\ spPc = "exited_wait" /\ hist.restores = 1 /\ hist.waitCalls = 1

\* C16: the mask install and the mask restore are the Spawner's innermost
\* operations around vfork: vfork is its next step after the install, the
\* restore its next step after vfork returned; while a not-yet-replaced
\* child exists the Spawner's mask is the all-blocked one.
C16_MaskBracketsVfork ==
  /\ [](chState = "running" => spMask = Sigs /\ spPc = "suspended")
  /\ [](spPc \in {"vfork", "suspended", "restore", "fail_restore"}
          => spMask = Sigs)
  /\ [][spPc = "block" /\ spPc' # spPc => spPc' = "vfork"]_vars
  /\ [][spPc = "vfork" /\ spPc' # spPc =>
          /\ spPc' \in {"suspended", "fail_restore"}
          /\ UNCHANGED << spMask, out, old_signal_mask >>]_vars
  /\ [][spPc = "suspended" /\ spPc' # spPc => spPc' = "restore"]_vars
  /\ [][(spPc' # spPc /\ spPc \in {"restore", "fail_restore"}) =>
          spMask' = old_signal_mask /\ out' = out]_vars

C16_Witness ==
  /\ chState = "running" /\ chPc = "execve" /\ chMask # Sigs
  /\ spMask = Sigs /\ spPc = "suspended"

\* C17: from its vfork call until the child has replaced its image or
\* terminated the Spawner takes no step, so no Spawner step interleaves
\* with a child step, while main stays free to take its steps.
C17_ChildBeforeParent ==
  /\ [][chState = "running" =>
          /\ spPc = "suspended"
          /\ UNCHANGED << spPc, spMask, waited, status >>
          /\ hist'.restores = hist.restores
          /\ hist'.waitCalls = hist.waitCalls]_vars
  /\ [][ChildStepped => spPc = "suspended" /\ spPc' = spPc]_vars
  /\ [](chState = "running" /\ Alive /\ coPc = "work" => ENABLED CoWork)

C17_Witness ==
  /\ chState = "running" /\ chPc = "set" /\ spPc = "suspended"
  /\ coPc = "join_failed" /\ Alive

\* C18: the child visits the signal numbers once each in increasing order,
\* with at most one query and one set per number, tries execve at most once
\* and is replaced or terminated after a bounded number of steps, never
\* being stuck before.
MaxChildSteps == 4 * NSIG + 4
Increasing(q) == \A a, b \in 1 .. Len(q) : a < b => q[a] < q[b]
InOrder(q) == \E k \in 1 .. Len(q) : q[k] = i

C18_ChildTerminatesWithoutRetry ==
  /\ hist.order = [k \in 1 .. Len(hist.order) |-> k - 1]
  /\ Len(hist.order) <= NSIG
  /\ Increasing(hist.sets)
  /\ \A k \in 1 .. Len(hist.sets) :
       \E j \in 1 .. Len(hist.order) : hist.order[j] = hist.sets[k]
  /\ hist.execAttempts <= 1
  /\ hist.chSteps <= MaxChildSteps
  /\ chState = "running" => ENABLED ChStep
  /\ chState \in {"replaced", "zombie", "reaped"} =>
       chPc \in {"replaced", "terminated"}

C18_Witness ==
  /\ ExitedPreExec(3) /\ hist.chSteps = MaxChildSteps
  /\ Len(hist.sets) = NSIG - 1 /\ Len(hist.order) = NSIG

\* C19: main reaches its success exit only after run_thread has returned,
\* the child reaped and the global status written; status is written by the
\* Spawner's waitpid only and no step of main touches it.
C19_SuccessAfterSpawnerReturned ==
  /\ [](coPc = "joined" \/ procExit = "success" =>
          /\ spPc = "returned" /\ chState = "reaped"
          /\ hist.waitCalls = 1 /\ hist.decoded = 1
          /\ status = EncodeStatus(chTerm))
  /\ [][status' # status => spPc = "waitpid" /\ spPc' = "decode"]_vars
  /\ [][coPc' # coPc => status' = status]_vars

C19_Witness ==
  /\ procExit = "success" /\ spPc = "returned"
  /\ chTerm.kind = "signal" /\ status = W_KILLED(chTerm.val, 1)

\* C20: the child, running in the parent's address space, writes none of
\* old_signal_mask, status, filename, new_argv, new_envp (nor signal_mask,
\* child, waited), so the mask the parent restores is the one captured
\* before vfork.
C20_ChildLeavesSharedState ==
  /\ [][ChildStepped =>
          UNCHANGED << old_signal_mask, status, target, signal_mask, child,
                       waited >>]_vars
  /\ [](target = TheTarget)
  /\ [](spPc \in {"vfork", "suspended", "restore", "fail_restore"}
          => old_signal_mask = hist.preMask)
  /\ [][spPc = "restore" /\ spPc' # spPc => spMask' = hist.preMask]_vars

C20_Witness ==
  /\ spPc = "waitpid" /\ chPc = "replaced"
  /\ i = NSIG /\ empty_mask = {} /\ newsa.sa_handler = "SIG_DFL"
  /\ hist.preMask # {} /\ hist.preMask # Sigs /\ spMask = hist.preMask

====
